---- MODULE Spec2Model ----
(***************************************************************************)
(* Client state machine of the humanoid-robotics-book site: the            *)
(* AuthProvider context (useAuth), the AuthGuard mounted in Root, the      *)
(* axios clients and the chat hook (useChatbot) behind the ChatbotWidget.  *)
(* The backend is the environment: every response is an input.             *)
(***************************************************************************)
EXTENDS Bags, FiniteSets, Integers, Sequences, TLC

\* ------------------------------------------------------------------------
\* Bounds of the model
\* ------------------------------------------------------------------------
\* auth requests in flight plus scheduled retry timers
MaxAuthPending == 2
\* chat turns submitted by the user (the backend numbers them)
MaxTurns == 2
\* GET /chat/history requests in flight
MaxHistoryPending == 1

\* ------------------------------------------------------------------------
\* Program constants
\* ------------------------------------------------------------------------
MAX_RETRIES == 3
RETRY_DELAYS == <<1000, 2000, 4000>>

NoUser == "null"
Users == {"u1"}
\* threadId: thread identifiers are positive numbers, 0 stands for null
NoThread == 0
NoError == "null"
NoDetail == ""
\* the empty selection and the empty selectedText (a string is the sequence
\* of its characters)
NoSelection == <<>>

\* values typed into the password fields of SignupForm
Passwords ==
    { <<"B", "b", "1", "?", "a", "a", "a", "_">>,
      <<"A", "a", "1", "!", "b", "b", "b">>,
      <<"a", "a", "1", "!", "b", "b", "b", "b">>,
      <<"A", "A", "1", "!", "B", "B", "B", "B">>,
      <<"A", "a", "!", "!", "b", "b", "b", "b">>,
      <<"A", "a", "1", "_", "b", "b", "b", " ">>,
      <<"a", "a", "a", "a", "a", "a", "a", "a">> }

\* values typed into the confirmation field: the password again, or the
\* password with its last character missed
Confirmations(password) ==
    {password, SubSeq(password, 1, Len(password) - 1)}

\* what the user can have typed into the input field (a string is the
\* sequence of its characters)
Inputs == {<<>>, <<" ">>, <<" ", "q", " ">>}
\* what the user can have selected on the page: blank space, or a passage
\* with the blank before it
Selections == {<<" ">>, <<" ", "p">>}

\* window.location.pathname values the model visits
Paths == {"/", "/auth/login", "/auth/signup"}
NoLoad == "none"

\* pathname.includes('/auth')
PathIncludesAuth(p) == p \in {"/auth/login", "/auth/signup"}

\* outcomes of GET /auth/me as axios sees them
MeOutcomes ==
    [response : {TRUE}, status : {200}, user : Users]
    \cup [response : {TRUE}, status : {401, 403, 500}, user : {NoUser}]
    \cup [response : {FALSE}, status : {0}, user : {NoUser}]

VARIABLES
    user,               \* AuthProvider: useState(null)
    isLoading,          \* AuthProvider: useState(true)
    isMountedRef,       \* AuthProvider: useRef(true)
    abortControllerRef, \* AuthProvider: useRef(null), "null" or "controller"
    authReqs,           \* bag of auth requests in flight
    retryTimers,        \* bag of scheduled refreshUser retries
    timedOut,           \* AuthGuard (Root): useState(false)
    signupError,        \* SignupForm: error, useState('')
    signupIsLoading,    \* SignupForm: isLoading, useState(false)
    pathname,           \* window.location.pathname
    pendingLoad,        \* target of an assigned window.location.href
    widgetMounted,      \* a ChatbotWidget instance is mounted below AuthGuard
    messages,           \* useChatbot: useState([])
    threadId,           \* useChatbot: useState(null)
    chatIsLoading,      \* useChatbot: isLoading, useState(false)
    error,              \* useChatbot: useState(null)
    chatReqs,           \* set of POST /chat/message requests in flight
    nextTurn,           \* number of the next chat turn (request counter)
    inputValue,         \* ChatbotWidget: useState('')
    selectedText,       \* useTextSelection: useState('')
    isExpanded,         \* ChatbotWidget: useState(true)
    controlIsExpanded,  \* ChatbotControlProvider: isExpanded, useState(true)
    pageSelection,      \* window.getSelection().toString()
    debouncePending,    \* useTextSelection: the debounced call is scheduled
    historyReqs,        \* set of GET /chat/history requests in flight
    history,            \* backend: the persisted chat messages, oldest first
    lastOp              \* the handler that ran last

authVars == <<user, isLoading, isMountedRef, abortControllerRef, authReqs,
              retryTimers, timedOut, signupError, signupIsLoading>>
navVars == <<pathname, pendingLoad>>
chatVars == <<widgetMounted, messages, threadId, chatIsLoading, error,
              chatReqs, nextTurn, inputValue, selectedText, isExpanded,
              controlIsExpanded, pageSelection, debouncePending,
              historyReqs, history>>
vars == <<authVars, navVars, chatVars, lastOp>>

\* ------------------------------------------------------------------------
\* Derived values
\* ------------------------------------------------------------------------
\* useMemo value: isAuthenticated: user !== null
isAuthenticated == user /= NoUser

AuthPending == BagCardinality(authReqs) + BagCardinality(retryTimers)

\* AuthGuard without its `!isAuthenticated` test
AuthGuardRendersWithoutAuthTest(showLoading, loading, authed, to) ==
    IF showLoading /\ (loading /\ ~to) THEN FALSE
    ELSE IF to THEN FALSE
    ELSE TRUE

\* AuthGuard's return value: TRUE when it returns its children
AuthGuardRendersChildren(showLoading, loading, authed, to) ==
    IF showLoading /\ (loading /\ ~to) THEN FALSE
    ELSE IF ~authed \/ to THEN FALSE
    ELSE TRUE

\* redirectTo = null
NoRedirect == "null"

\* the redirectTo values AuthGuard is given: Root's null and the default
RedirectTargets == {NoRedirect, "/auth/login"}

\* an AuthGuard pushing its default target whatever redirectTo is
AuthGuardRedirectDefault(loading, authed, redirectTo) ==
    IF ~loading /\ ~authed THEN "/auth/login" ELSE NoRedirect

\* AuthGuard's first effect: the target of its history.push, NoRedirect
\* when it pushes nothing
AuthGuardRedirect(loading, authed, redirectTo) ==
    IF ~loading /\ ~authed /\ redirectTo /= NoRedirect
    THEN redirectTo
    ELSE NoRedirect

\* Root: <AuthGuard redirectTo={null} ...>
RootRedirectTo == NoRedirect

\* Root: <AuthGuard redirectTo={null} showLoading={false}><ChatbotWidget/>
RootRendersWidget(u, loading, to) ==
    AuthGuardRendersChildren(FALSE, loading, u /= NoUser, to)

\* authService.getCurrentUser on an outcome of GET /auth/me
GetCurrentUser(o) ==
    IF o.response /\ o.status = 200
    THEN [threw |-> FALSE, value |-> o.user]
    ELSE IF o.response /\ o.status = 401
    THEN [threw |-> FALSE, value |-> NoUser]
    ELSE [threw |-> TRUE, value |-> NoUser]

\* the retry test taking every error answer for a network error
IsNetworkErrorAnyStatus(o) == ~o.response \/ o.status >= 400

\* refreshUser: !error.response || error.response.status >= 500
IsNetworkError(o) == ~o.response \/ o.status >= 500

\* ------------------------------------------------------------------------
\* React commit below Root after an auth state change: the ChatbotWidget
\* instance is unmounted when AuthGuard stops returning its children, and
\* its hook state goes with it; requests it had sent stay in flight.
\* ------------------------------------------------------------------------
Orphaned(reqs) == {[r EXCEPT !.live = FALSE] : r \in reqs}

\* LoginPage / SignupPage without their redirect effect
PageEffectNone(p, u, loading) == p

\* LoginPage / SignupPage effect: history.push(baseUrl) for a signed-in user
PageEffect(p, u, loading) ==
    IF PathIncludesAuth(p) /\ ~loading /\ u /= NoUser THEN "/" ELSE p

\* useChatbot mount effect: const initialThreadId = null
InitialThreadId == NoThread

\* GET /chat/history/${loadThreadId}
HistoryRequest(t) == [thread |-> t, live |-> TRUE]

\* SignupForm: useState('') for error
NoFormError == ""

\* err and busy are the values the running handler leaves in SignupForm's
\* error and isLoading; the state is lost when SignupPage stops rendering
\* the form
CommitSetting(mounted, u, loading, to, err, busy) ==
    LET shown == mounted /\ RootRendersWidget(u, loading, to)
        pushed == AuthGuardRedirect(loading, u /= NoUser, RootRedirectTo)
    IN  /\ widgetMounted' = shown
        /\ pathname' = IF ~mounted THEN pathname
                       ELSE IF pushed /= NoRedirect THEN pushed
                       ELSE PageEffect(pathname, u, loading)
        /\ IF widgetMounted /\ ~shown
           THEN /\ messages' = <<>>
                /\ threadId' = NoThread
                /\ chatIsLoading' = FALSE
                /\ error' = NoError
                /\ chatReqs' = Orphaned(chatReqs)
                /\ inputValue' = <<>>
                /\ selectedText' = NoSelection
                /\ isExpanded' = TRUE
                /\ debouncePending' = FALSE
                /\ historyReqs' = Orphaned(historyReqs)
                /\ UNCHANGED nextTurn
           ELSE IF ~widgetMounted /\ shown /\ InitialThreadId /= NoThread
           THEN /\ chatIsLoading' = TRUE
                /\ historyReqs' = historyReqs
                                      \cup {HistoryRequest(InitialThreadId)}
                /\ UNCHANGED <<messages, threadId, error, chatReqs,
                               nextTurn, inputValue, selectedText,
                               isExpanded, debouncePending>>
           ELSE UNCHANGED <<messages, threadId, chatIsLoading, error,
                            chatReqs, nextTurn, inputValue, selectedText,
                            isExpanded, debouncePending, historyReqs>>
        /\ UNCHANGED <<controlIsExpanded, pageSelection, history>>
        /\ LET form == /\ mounted
                        /\ pathname' = "/auth/signup"
                        /\ ~(~loading /\ u /= NoUser)
           IN  /\ signupError' = IF form THEN err ELSE NoFormError
               /\ signupIsLoading' = (form /\ busy)

Commit(mounted, u, loading, to) ==
    CommitSetting(mounted, u, loading, to, signupError, signupIsLoading)

\* ------------------------------------------------------------------------
\* Initial state: the page has loaded, Root has mounted, the mount effect
\* has called refreshUser()
\* ------------------------------------------------------------------------
MeRequest(n) == [op |-> "me", retry |-> n]

LoadedAt(p) ==
    /\ user = NoUser
    /\ isLoading = TRUE
    /\ isMountedRef = TRUE
    /\ abortControllerRef = "controller"
    /\ authReqs = SetToBag({MeRequest(0)})
    /\ retryTimers = EmptyBag
    /\ timedOut = FALSE
    /\ signupError = NoFormError
    /\ signupIsLoading = FALSE
    /\ pathname = p
    /\ pendingLoad = NoLoad
    /\ widgetMounted = FALSE
    /\ messages = <<>>
    /\ threadId = NoThread
    /\ chatIsLoading = FALSE
    /\ error = NoError
    /\ chatReqs = {}
    /\ nextTurn = 1
    /\ inputValue = <<>>
    /\ selectedText = NoSelection
    /\ isExpanded = TRUE
    /\ controlIsExpanded = TRUE
    /\ pageSelection = NoSelection
    /\ debouncePending = FALSE
    /\ historyReqs = {}
    /\ history = <<>>
    /\ lastOp = "load"

Init == LoadedAt("/")

\* ------------------------------------------------------------------------
\* AuthProvider
\* ------------------------------------------------------------------------
\* refreshUser(retryCount) up to its await
RefreshUserStart(n) ==
    /\ abortControllerRef' = "controller"
    /\ isLoading' = TRUE
    /\ authReqs' = authReqs (+) SetToBag({MeRequest(n)})
    /\ UNCHANGED <<user, isMountedRef, timedOut>>

\* a consumer calls refreshUser() of the context value
RefreshUser ==
    /\ isMountedRef
    /\ AuthPending < MaxAuthPending
    /\ RefreshUserStart(0)
    /\ UNCHANGED retryTimers
    /\ Commit(isMountedRef, user, TRUE, timedOut)
    /\ lastOp' = "refreshUser"
    /\ UNCHANGED pendingLoad

\* refreshUser clearing the user also when it schedules a retry
MeUserClearedOnRetry(res, shouldRetry, cur) ==
    IF ~res.threw THEN res.value ELSE NoUser

\* refreshUser without setUser(null) in its catch block
MeUserKeptOnError(res, shouldRetry, cur) ==
    IF ~res.threw THEN res.value ELSE cur

\* refreshUser: the user after GET /auth/me has settled (setUser(currentUser)
\* in try, nothing when a retry is scheduled, setUser(null) in catch)
MeUser(res, shouldRetry, cur) ==
    IF ~res.threw THEN res.value
    ELSE IF shouldRetry THEN cur
    ELSE NoUser

\* refreshUser's finally without the isMountedRef test
FinallyLoadingUnguarded(mounted, loading) == FALSE

\* refreshUser, finally: if (isMountedRef.current) setIsLoading(false)
FinallyLoading(mounted, loading) == IF mounted THEN FALSE ELSE loading

\* GET /auth/me settles: refreshUser from the await to the end of finally
MeSettles(r, o) ==
    /\ BagIn(r, authReqs)
    /\ r.op = "me"
    /\ LET res == GetCurrentUser(o)
           shouldRetry == IsNetworkError(o) /\ r.retry < MAX_RETRIES
           newUser == IF ~isMountedRef THEN user
                      ELSE MeUser(res, shouldRetry, user)
           newLoading == FinallyLoading(isMountedRef, isLoading)
       IN  /\ user' = newUser
           /\ isLoading' = newLoading
           /\ retryTimers' =
                IF res.threw /\ shouldRetry /\ isMountedRef
                THEN retryTimers (+) SetToBag({[retry |-> r.retry + 1,
                                               delay |-> RETRY_DELAYS[r.retry + 1]]})
                ELSE retryTimers
           /\ lastOp' = IF ~res.threw
                        THEN (IF res.value = NoUser THEN "me401" ELSE "meOk")
                        ELSE IF shouldRetry /\ isMountedRef THEN "meRetry"
                        ELSE "meError"
           /\ Commit(isMountedRef, newUser, newLoading, timedOut)
    /\ abortControllerRef' = "null"
    /\ authReqs' = authReqs (-) SetToBag({r})
    /\ UNCHANGED <<isMountedRef, timedOut, pendingLoad>>

\* the setTimeout callback of a scheduled retry
RetryFires(t) ==
    /\ BagIn(t, retryTimers)
    /\ retryTimers' = retryTimers (-) SetToBag({t})
    /\ IF isMountedRef
       THEN /\ RefreshUserStart(t.retry)
            /\ Commit(isMountedRef, user, TRUE, timedOut)
       ELSE /\ UNCHANGED <<user, isLoading, isMountedRef, abortControllerRef,
                           authReqs, timedOut, signupError,
                           signupIsLoading, chatVars, pathname>>
    /\ lastOp' = "retryFires"
    /\ UNCHANGED pendingLoad

\* the form of LoginPage / SignupPage is rendered
AuthFormRendered(p) ==
    /\ isMountedRef
    /\ pathname = p
    /\ ~(~isLoading /\ isAuthenticated)

\* login(email, password) / register(email, password) up to the await
Credentials(op) ==
    /\ AuthFormRendered(IF op = "login" THEN "/auth/login" ELSE "/auth/signup")
    /\ AuthPending < MaxAuthPending
    /\ isLoading' = TRUE
    /\ authReqs' = authReqs (+) SetToBag({[op |-> op, retry |-> 0]})
    /\ CommitSetting(isMountedRef, user, TRUE, timedOut, NoFormError,
                     op = "register")
    /\ lastOp' = op
    /\ UNCHANGED <<user, isMountedRef, abortControllerRef, retryTimers,
                   timedOut, pendingLoad>>

\* character classes of the regular expressions in validatePasswordStrength;
\* "_" and " " are in none of them
UpperCase == {"A", "B"}
LowerCase == {"a", "b"}
Digits == {"1"}
SpecialChars == {"!", "?"}

HasChar(password, class) == \E i \in 1..Len(password) : password[i] \in class

TooShort == "Password must be at least 8 characters long"
NoUpperCase == "Password must contain at least one uppercase letter"
NoLowerCase == "Password must contain at least one lowercase letter"
NoDigit == "Password must contain at least one digit"
NoSpecialChar == "Password must contain at least one special character"
Mismatch == "Passwords do not match"

\* validatePasswordStrength without the digit test
ValidatePasswordStrengthNoDigit(password) ==
    IF Len(password) < 8 THEN TooShort
    ELSE IF ~HasChar(password, UpperCase) THEN NoUpperCase
    ELSE IF ~HasChar(password, LowerCase) THEN NoLowerCase
    ELSE IF ~HasChar(password, SpecialChars) THEN NoSpecialChar
    ELSE NoFormError

\* validatePasswordStrength: the message of the first failed test, or null
ValidatePasswordStrength(password) ==
    IF Len(password) < 8 THEN TooShort
    ELSE IF ~HasChar(password, UpperCase) THEN NoUpperCase
    ELSE IF ~HasChar(password, LowerCase) THEN NoLowerCase
    ELSE IF ~HasChar(password, Digits) THEN NoDigit
    ELSE IF ~HasChar(password, SpecialChars) THEN NoSpecialChar
    ELSE NoFormError

\* SignupForm.handleSubmit up to the await of register(email, password)
SignupSubmit(password, confirmPassword) ==
    LET passwordError == ValidatePasswordStrength(password)
    IN  /\ ~signupIsLoading
        /\ IF password /= confirmPassword \/ passwordError /= NoFormError
           THEN /\ AuthFormRendered("/auth/signup")
                /\ signupError' = IF password /= confirmPassword
                                   THEN Mismatch ELSE passwordError
                /\ lastOp' = "signupRejected"
                /\ UNCHANGED <<user, isLoading, isMountedRef,
                               abortControllerRef, authReqs, retryTimers,
                               timedOut, signupIsLoading, navVars,
                               chatVars>>
           ELSE Credentials("register")

\* SignupForm.handleSubmit, catch: setError(detail || message || ...)
RegistrationFailed == "Registration failed. Please try again."

\* the rendered SignupForm may be the one that awaits request r: it has one
\* call in flight while its isLoading is set, and forms unmounted since may
\* have left others
AwaitedByForm(r) ==
    IF r.op = "register" /\ signupIsLoading
    THEN IF CopiesIn(r, authReqs) > 1 THEN BOOLEAN ELSE {TRUE}
    ELSE {FALSE}

\* POST /auth/login or /auth/register settles; on success the form calls
\* onSuccess, which assigns window.location.href = baseUrl; on failure a
\* SignupForm that is still mounted shows the error
CredentialsSettle(r, ok, u) ==
    /\ BagIn(r, authReqs)
    /\ r.op \in {"login", "register"}
    /\ \E mine \in AwaitedByForm(r) :
        LET newUser == IF isMountedRef /\ ok THEN u ELSE user
            newLoading == IF isMountedRef THEN FALSE ELSE isLoading
            err == IF mine /\ ~ok THEN RegistrationFailed ELSE signupError
            busy == IF mine THEN FALSE ELSE signupIsLoading
        IN  /\ user' = newUser
            /\ isLoading' = newLoading
            /\ CommitSetting(isMountedRef, newUser, newLoading, timedOut,
                             err, busy)
    /\ pendingLoad' = IF ok THEN "/" ELSE pendingLoad
    /\ authReqs' = authReqs (-) SetToBag({r})
    /\ lastOp' = IF ok THEN r.op \o "Ok" ELSE r.op \o "Fail"
    /\ UNCHANGED <<isMountedRef, abortControllerRef, retryTimers, timedOut>>

\* themeConfig.navbar.items: what the original Navbar renders on every page
NavbarItems == {"Modules", "Login", "Sign Up"}

\* NavbarWrapper: what it adds to the original Navbar
WrapperItems(loading, authed) ==
    IF loading THEN {}
    ELSE IF ~authed THEN {"Login", "Sign Up"}
    ELSE {"UserDropdown"}

\* NavbarWrapper's render: <Navbar {...props} /> and the wrapper's items
NavbarShows(loading, authed) == NavbarItems \cup WrapperItems(loading, authed)

\* Navbar: the wrapper shows UserDropdown
UserDropdownRendered == isMountedRef /\ ~isLoading /\ isAuthenticated

\* UserDropdown.handleLogout -> logout() up to the await
Logout ==
    /\ UserDropdownRendered
    /\ AuthPending < MaxAuthPending
    /\ isLoading' = TRUE
    /\ authReqs' = authReqs (+) SetToBag({[op |-> "logout", retry |-> 0]})
    /\ Commit(isMountedRef, user, TRUE, timedOut)
    /\ lastOp' = "logout"
    /\ UNCHANGED <<user, isMountedRef, abortControllerRef, retryTimers,
                   timedOut, pendingLoad>>

\* the user that logout() leaves when POST /auth/logout has settled
LogoutUser(ok) == IF ok THEN NoUser ELSE user

\* POST /auth/logout settles: logout() from the await to the end of finally
LogoutSettles(r, ok) ==
    /\ BagIn(r, authReqs)
    /\ r.op = "logout"
    /\ LET newUser == IF isMountedRef THEN LogoutUser(ok) ELSE user
           newLoading == IF isMountedRef THEN FALSE ELSE isLoading
       IN  /\ user' = newUser
           /\ isLoading' = newLoading
           /\ Commit(isMountedRef, newUser, newLoading, timedOut)
    /\ authReqs' = authReqs (-) SetToBag({r})
    /\ lastOp' = IF ok THEN "logoutOk" ELSE "logoutFail"
    /\ UNCHANGED <<isMountedRef, abortControllerRef, retryTimers, timedOut,
                   pendingLoad>>

\* AuthGuard: the 10 s timer armed by the [isLoading] effect fires
GuardTimeout ==
    /\ isMountedRef
    /\ isLoading
    /\ ~timedOut
    /\ timedOut' = TRUE
    /\ Commit(isMountedRef, user, isLoading, TRUE)
    /\ lastOp' = "guardTimeout"
    /\ UNCHANGED <<user, isLoading, isMountedRef, abortControllerRef,
                   authReqs, retryTimers, pendingLoad>>

\* the timeout callback without its setIsLoading(false)
SafeguardLoadingKept(loading) == loading

\* the timeout safeguard: if (isLoading) setIsLoading(false)
SafeguardLoading(loading) == IF loading THEN FALSE ELSE loading

\* AuthProvider: the 10 s timer armed by the [isLoading] effect fires; it
\* was armed in the same commit as AuthGuard's and after it
ProviderTimeout ==
    /\ isMountedRef
    /\ isLoading
    /\ timedOut
    /\ isLoading' = SafeguardLoading(isLoading)
    /\ Commit(isMountedRef, user, isLoading', timedOut)
    /\ lastOp' = "providerTimeout"
    /\ UNCHANGED <<user, isMountedRef, abortControllerRef, authReqs,
                   retryTimers, timedOut, pendingLoad>>

\* AuthProvider unmounts: the cleanup of the first effect
Unmount ==
    /\ isMountedRef
    /\ isMountedRef' = FALSE
    /\ abortControllerRef' = abortControllerRef
    /\ Commit(FALSE, user, isLoading, timedOut)
    /\ lastOp' = "unmount"
    /\ UNCHANGED <<user, isLoading, authReqs, retryTimers, timedOut,
                   pendingLoad>>

\* ------------------------------------------------------------------------
\* Browser
\* ------------------------------------------------------------------------
\* a Link or history.push inside the single-page app
Navigate(p) ==
    /\ isMountedRef
    /\ p /= pathname
    /\ pathname' = PageEffect(p, user, isLoading)
    /\ pathname' /= pathname
    /\ signupError' = NoFormError
    /\ signupIsLoading' = FALSE
    /\ lastOp' = "navigate"
    /\ UNCHANGED <<user, isLoading, isMountedRef, abortControllerRef,
                   authReqs, retryTimers, timedOut, chatVars, pendingLoad>>

\* the document at p loads: a fresh Root, requests of the old page are gone
Loaded(p) ==
    /\ user' = NoUser
    /\ isLoading' = TRUE
    /\ isMountedRef' = TRUE
    /\ abortControllerRef' = "controller"
    /\ authReqs' = SetToBag({MeRequest(0)})
    /\ retryTimers' = EmptyBag
    /\ timedOut' = FALSE
    /\ signupError' = NoFormError
    /\ signupIsLoading' = FALSE
    /\ pathname' = p
    /\ pendingLoad' = NoLoad
    /\ widgetMounted' = FALSE
    /\ messages' = <<>>
    /\ threadId' = NoThread
    /\ chatIsLoading' = FALSE
    /\ error' = NoError
    /\ chatReqs' = {}
    /\ UNCHANGED nextTurn
    /\ inputValue' = <<>>
    /\ selectedText' = NoSelection
    /\ isExpanded' = TRUE
    /\ controlIsExpanded' = TRUE
    /\ pageSelection' = NoSelection
    /\ debouncePending' = FALSE
    /\ historyReqs' = {}
    /\ UNCHANGED history
    /\ lastOp' = "load"

\* the navigation started by an assignment to window.location.href ends
PageLoad ==
    /\ pendingLoad /= NoLoad
    /\ Loaded(pendingLoad)

\* the user reloads the page
Reload ==
    /\ lastOp /= "load"
    /\ Loaded(pathname)

AuthNext ==
    \/ RefreshUser
    \/ \E r \in DOMAIN authReqs, o \in MeOutcomes : MeSettles(r, o)
    \/ \E t \in DOMAIN retryTimers : RetryFires(t)
    \/ Credentials("login")
    \/ \E password \in Passwords :
          \E confirmPassword \in Confirmations(password) :
              SignupSubmit(password, confirmPassword)
    \/ \E r \in DOMAIN authReqs, ok \in BOOLEAN, u \in Users :
          CredentialsSettle(r, ok, u)
    \/ Logout
    \/ \E r \in DOMAIN authReqs, ok \in BOOLEAN : LogoutSettles(r, ok)
    \/ GuardTimeout
    \/ ProviderTimeout
    \/ Unmount

NavNext ==
    \/ \E p \in Paths : Navigate(p)
    \/ PageLoad
    \/ Reload

\* ------------------------------------------------------------------------
\* ChatbotWidget, useChatbot, useTextSelection, apiClient
\* ------------------------------------------------------------------------
\* String.prototype.trim
RECURSIVE TrimLeft(_)
TrimLeft(s) ==
    IF s /= <<>> /\ Head(s) = " " THEN TrimLeft(Tail(s)) ELSE s

RECURSIVE TrimRight(_)
TrimRight(s) ==
    IF s /= <<>> /\ s[Len(s)] = " "
    THEN TrimRight(SubSeq(s, 1, Len(s) - 1))
    ELSE s

\* a trim that removes nothing
TrimNothing(s) == s

Trim(s) == TrimRight(TrimLeft(s))

\* handleSubmit taking every question for a question on a selection
QueryModeSelectionAlways(sel) == "selection"

\* handleSubmit: selectedText ? 'selection' : 'full_book'
QueryMode(sel) == IF sel /= NoSelection THEN "selection" ELSE "full_book"

\* sendMessage: the optimistic entry, id `temp-${Date.now()}`
TempUserMessage(turn, content, mode) ==
    [id |-> <<"temp", turn>>, role |-> "user", content |-> content,
     thread_id |-> NoThread, query_mode |-> mode]

\* sendMessage that leaves the optimistic message in the list
WithoutTempKept(prev, turn) == prev

\* prev.filter(msg => msg.id !== tempUserMessage.id)
WithoutTemp(prev, turn) ==
    SelectSeq(prev, LAMBDA m : m.id /= <<"temp", turn>>)

\* the body of POST /chat/message
ChatRequest(turn, content, thread, mode, sel, before) ==
    [turn |-> turn, message |-> content, thread_id |-> thread,
     query_mode |-> mode, selected_text |-> sel,
     live |-> TRUE, before |-> before]

\* the backend: a question without thread identifier opens a new thread,
\* the persisted user message and the persisted assistant message are
\* returned with the thread identifier
ServerThread(r) == IF r.thread_id = NoThread THEN r.turn ELSE r.thread_id

ServerUserMessage(r) ==
    [id |-> <<"msg", 2 * r.turn - 1>>, role |-> "user", content |-> r.message,
     thread_id |-> ServerThread(r), query_mode |-> r.query_mode]

ServerAssistantMessage(r) ==
    [id |-> <<"msg", 2 * r.turn>>, role |-> "assistant",
     content |-> <<"a">>, thread_id |-> ServerThread(r),
     query_mode |-> r.query_mode]

\* the backend persists the two messages of a turn it answers
Persisted(log, r, o) ==
    IF o.status = 200
    THEN log \o <<ServerUserMessage(r), ServerAssistantMessage(r)>>
    ELSE log

\* the backend: the messages of thread t in creation order
ThreadHistory(log, t) == SelectSeq(log, LAMBDA m : m.thread_id = t)

\* outcomes of POST /chat/message as axios sees them
ChatOutcomes ==
    [response : {TRUE}, status : {200}, detail : {NoDetail}]
    \cup [response : {TRUE}, status : {401, 500}, detail : {NoDetail, "detail"}]
    \cup [response : {FALSE}, status : {0}, detail : {NoDetail}]

\* the interceptor without its pathname test
InterceptorAnyPath(o, path, pending) ==
    IF o.response /\ o.status = 401 THEN "/auth/login" ELSE pending

\* apiClient response interceptor (error branch): the new value of the
\* pending navigation
Interceptor(o, path, pending) ==
    IF o.response /\ o.status = 401 /\ ~PathIncludesAuth(path)
    THEN "/auth/login"
    ELSE pending

\* sendMessage: err.response?.data?.detail || 'Failed to send message'
SendError(o) ==
    IF o.response /\ o.detail /= NoDetail THEN o.detail
    ELSE "Failed to send message"

\* sendMessage without its setThreadId call
NewThreadIdNeverSet(closed, current, returned) == current

\* sendMessage: if (!threadId) setThreadId(newThreadId), threadId being
\* the value sendMessage closed over
NewThreadId(closed, current, returned) ==
    IF closed = NoThread THEN returned ELSE current

\* the input's onChange
TypeInput(v) ==
    /\ widgetMounted
    /\ isExpanded
    /\ ~chatIsLoading
    /\ v /= inputValue
    /\ inputValue' = v
    /\ lastOp' = "typeInput"
    /\ UNCHANGED <<authVars, navVars, widgetMounted, messages, threadId,
                   chatIsLoading, error, chatReqs, nextTurn, selectedText,
                   isExpanded, controlIsExpanded, pageSelection,
                   debouncePending>>
    /\ UNCHANGED <<historyReqs, history>>

\* useTextSelection.handleSelectionChange: the user changes the selection
\* of the page; the hook of a mounted widget (re)schedules its debounced
\* call with the live Selection object
HandleSelectionChange(t) ==
    /\ isMountedRef
    /\ t /= pageSelection
    /\ pageSelection' = t
    /\ debouncePending' = IF widgetMounted THEN TRUE ELSE debouncePending
    /\ lastOp' = "selectionChange"
    /\ UNCHANGED <<authVars, navVars, widgetMounted, messages, threadId,
                   chatIsLoading, error, chatReqs, nextTurn, inputValue,
                   selectedText, isExpanded, controlIsExpanded>>
    /\ UNCHANGED <<historyReqs, history>>

\* the debounced callback reading another text than the selection's
DebouncedTextAny(sel, cur) == <<"p">>

\* the debounced callback: text = selection.toString().trim();
\* if (text.length > 0) setSelectedText(text)
DebouncedText(sel, cur) == IF Len(Trim(sel)) > 0 THEN Trim(sel) ELSE cur

\* useTextSelection.debouncedSetSelectedText fires, 300 ms after the last
\* selectionchange
DebouncedSetSelectedText ==
    /\ debouncePending
    /\ debouncePending' = FALSE
    /\ selectedText' = DebouncedText(pageSelection, selectedText)
    /\ lastOp' = "debounced"
    /\ UNCHANGED <<authVars, navVars, widgetMounted, messages, threadId,
                   chatIsLoading, error, chatReqs, nextTurn, inputValue,
                   isExpanded, controlIsExpanded, pageSelection>>
    /\ UNCHANGED <<historyReqs, history>>

\* window.getSelection()?.removeAllRanges() with a hook listening or not:
\* a selectionchange event follows when there was a selection
RemoveAllRanges(listening) ==
    /\ pageSelection' = NoSelection
    /\ debouncePending' = IF listening /\ pageSelection /= NoSelection
                          THEN TRUE
                          ELSE debouncePending

\* useTextSelection.clearSelection
ClearSelectionCall ==
    /\ selectedText' = NoSelection
    /\ RemoveAllRanges(TRUE)

\* handleClearSelection -> clearSelection: the button of the indicator
ClearSelection ==
    /\ widgetMounted
    /\ isExpanded
    /\ selectedText /= NoSelection
    /\ ClearSelectionCall
    /\ lastOp' = "clearSelection"
    /\ UNCHANGED <<authVars, navVars, widgetMounted, messages, threadId,
                   chatIsLoading, error, chatReqs, nextTurn, inputValue,
                   isExpanded, controlIsExpanded>>
    /\ UNCHANGED <<historyReqs, history>>

\* ChatbotWidget: {selectedText && <SelectionModeIndicator ... />}
SelectionIndicatorShown ==
    widgetMounted /\ isExpanded /\ selectedText /= NoSelection

\* handleSubmit up to the await inside sendMessage
\* handleSubmit that returns early for a blank input only
SubmitRefusedBlankOnly(input, loading) == Trim(input) = <<>>

\* handleSubmit: if (!inputValue.trim() || isLoading) return
SubmitRefused(input, loading) == Trim(input) = <<>> \/ loading

HandleSubmit ==
    /\ widgetMounted
    /\ isExpanded
    /\ ~SubmitRefused(inputValue, chatIsLoading)
    /\ nextTurn <= MaxTurns
    /\ LET mode == QueryMode(selectedText)
           content == Trim(inputValue)
       IN  /\ chatIsLoading' = TRUE
           /\ error' = NoError
           /\ messages' = Append(messages,
                                 TempUserMessage(nextTurn, content, mode))
           /\ chatReqs' = chatReqs \cup
                  {ChatRequest(nextTurn, content, threadId, mode,
                               selectedText, messages)}
    /\ nextTurn' = nextTurn + 1
    /\ lastOp' = "handleSubmit"
    /\ UNCHANGED <<authVars, navVars, widgetMounted, threadId, inputValue,
                   selectedText, isExpanded, controlIsExpanded,
                   pageSelection, debouncePending>>
    /\ UNCHANGED <<historyReqs, history>>

\* handleSubmit that keeps the text after the send
InputAfterSendKept(input) == input

\* handleSubmit after await sendMessage(...): setInputValue('')
InputAfterSend(input) == <<>>

\* POST /chat/message settles: the interceptor, sendMessage from the await
\* to the end of finally, then the rest of handleSubmit
SendSettles(r, o) ==
    /\ r \in chatReqs
    /\ chatReqs' = chatReqs \ {r}
    /\ pendingLoad' = IF o.status = 200 THEN pendingLoad
                      ELSE Interceptor(o, pathname, pendingLoad)
    /\ IF r.live
       THEN /\ threadId' = IF o.status = 200
                           THEN NewThreadId(r.thread_id, threadId,
                                            ServerThread(r))
                           ELSE threadId
            /\ messages' = IF o.status = 200
                           THEN WithoutTemp(messages, r.turn)
                                \o <<ServerUserMessage(r),
                                     ServerAssistantMessage(r)>>
                           ELSE WithoutTemp(messages, r.turn)
            /\ error' = IF o.status = 200 THEN error ELSE SendError(o)
            /\ chatIsLoading' = FALSE
            /\ inputValue' = InputAfterSend(inputValue)
            /\ IF r.query_mode = "selection"
               THEN ClearSelectionCall
               ELSE UNCHANGED <<selectedText, pageSelection,
                                debouncePending>>
            /\ lastOp' = IF o.status = 200 THEN "sendOk" ELSE "sendFail"
       ELSE /\ UNCHANGED <<threadId, messages, error, chatIsLoading,
                           inputValue, selectedText>>
            /\ IF r.query_mode = "selection"
               THEN RemoveAllRanges(widgetMounted)
               ELSE UNCHANGED <<pageSelection, debouncePending>>
            /\ lastOp' = "sendSettlesUnmounted"
    /\ UNCHANGED <<authVars, pathname, widgetMounted, nextTurn, isExpanded,
                   controlIsExpanded>>
    /\ history' = Persisted(history, r, o)
    /\ UNCHANGED historyReqs

\* the New conversation button: clearChat(); clearSelection()
ClearChat ==
    /\ widgetMounted
    /\ isExpanded
    /\ messages' = <<>>
    /\ threadId' = NoThread
    /\ error' = NoError
    /\ ClearSelectionCall
    /\ lastOp' = "clearChat"
    /\ UNCHANGED <<authVars, navVars, widgetMounted, chatIsLoading, chatReqs,
                   nextTurn, inputValue, isExpanded, controlIsExpanded>>
    /\ UNCHANGED <<historyReqs, history>>

\* ChatbotWidget.toggleExpanded: the Minimize button of the expanded widget
\* and the floating button of the collapsed one
ToggleExpanded ==
    /\ widgetMounted
    /\ isExpanded' = ~isExpanded
    /\ lastOp' = "toggleExpanded"
    /\ UNCHANGED <<authVars, navVars, widgetMounted, messages, threadId,
                   chatIsLoading, error, chatReqs, nextTurn, inputValue,
                   selectedText, controlIsExpanded, pageSelection,
                   debouncePending>>
    /\ UNCHANGED <<historyReqs, history>>

\* the landing page, where CustomHero is rendered
CustomHeroRendered == isMountedRef /\ pathname = "/"

\* CustomHero.handleGetStarted: the 'Get Started with AI' button
HandleGetStarted ==
    /\ CustomHeroRendered
    /\ IF ~isAuthenticated
       THEN /\ pathname' = PageEffect("/auth/signup", user, isLoading)
            /\ UNCHANGED controlIsExpanded
       ELSE /\ controlIsExpanded' = TRUE
            /\ UNCHANGED pathname
    /\ lastOp' = "getStarted"
    /\ UNCHANGED <<authVars, pendingLoad, widgetMounted, messages, threadId,
                   chatIsLoading, error, chatReqs, nextTurn, inputValue,
                   selectedText, isExpanded, pageSelection,
                   debouncePending>>
    /\ UNCHANGED <<historyReqs, history>>

\* loadHistory: err.response?.data?.detail || 'Failed to load history'
LoadError(o) ==
    IF o.response /\ o.detail /= NoDetail THEN o.detail
    ELSE "Failed to load history"

\* loadHistory keeping the list it had
LoadedMessagesKept(prev, list) == prev

\* loadHistory: setMessages(response.data.messages)
LoadedMessages(prev, list) == list

\* a consumer of the hook calls loadHistory(t): up to the await
LoadHistory(t) ==
    /\ widgetMounted
    /\ Cardinality(historyReqs) < MaxHistoryPending
    /\ chatIsLoading' = TRUE
    /\ error' = NoError
    /\ historyReqs' = historyReqs \cup {HistoryRequest(t)}
    /\ lastOp' = "loadHistory"
    /\ UNCHANGED <<authVars, navVars, widgetMounted, messages, threadId,
                   chatReqs, nextTurn, inputValue, selectedText, isExpanded,
                   controlIsExpanded, pageSelection, debouncePending,
                   history>>

\* GET /chat/history settles: the interceptor, then loadHistory from the
\* await to the end of finally
HistorySettles(r, o) ==
    /\ r \in historyReqs
    /\ historyReqs' = historyReqs \ {r}
    /\ pendingLoad' = IF o.status = 200 THEN pendingLoad
                      ELSE Interceptor(o, pathname, pendingLoad)
    /\ IF r.live
       THEN /\ messages' = IF o.status = 200
                           THEN LoadedMessages(messages,
                                               ThreadHistory(history, r.thread))
                           ELSE messages
            /\ threadId' = IF o.status = 200 THEN r.thread ELSE threadId
            /\ error' = IF o.status = 200 THEN error ELSE LoadError(o)
            /\ chatIsLoading' = FALSE
            /\ lastOp' = IF o.status = 200 THEN "historyOk"
                         ELSE "historyFail"
       ELSE /\ UNCHANGED <<messages, threadId, error, chatIsLoading>>
            /\ lastOp' = "historySettlesUnmounted"
    /\ UNCHANGED <<authVars, pathname, widgetMounted, chatReqs, nextTurn,
                   inputValue, selectedText, isExpanded, controlIsExpanded,
                   pageSelection, debouncePending, history>>

ChatNext ==
    \/ \E v \in Inputs : TypeInput(v)
    \/ \E t \in Selections \cup {NoSelection} : HandleSelectionChange(t)
    \/ DebouncedSetSelectedText
    \/ ClearSelection
    \/ HandleSubmit
    \/ \E r \in chatReqs, o \in ChatOutcomes : SendSettles(r, o)
    \/ ClearChat
    \/ ToggleExpanded
    \/ HandleGetStarted

Next ==
    \/ AuthNext
    \/ NavNext
    \/ ChatNext
    \/ \E t \in 1..MaxTurns : LoadHistory(t)
    \/ \E r \in historyReqs, o \in ChatOutcomes : HistorySettles(r, o)

Spec == Init /\ [][Next]_vars

\* The auth context alone: every AuthProvider operation, the timers and
\* the browser, with the chat widget left idle.
AuthSpecNext == AuthNext \/ NavNext

AuthSpec == Init /\ [][AuthSpecNext]_vars

\* The timers of the browser fire; the backend owes no answer.
FairAuthSpec ==
    AuthSpec /\ WF_vars(GuardTimeout) /\ WF_vars(ProviderTimeout)

\* The chat widget in the site as its components drive it: the mount-time
\* auth check with its retries, logout from the navbar, the timers and the
\* browser mount, unmount and reload the widget.
ChatEnv ==
    \/ \E r \in DOMAIN authReqs, o \in MeOutcomes : MeSettles(r, o)
    \/ \E t \in DOMAIN retryTimers : RetryFires(t)
    \/ Logout
    \/ \E r \in DOMAIN authReqs, ok \in BOOLEAN : LogoutSettles(r, ok)
    \/ GuardTimeout
    \/ ProviderTimeout

ChatSpecNext == ChatNext \/ ChatEnv \/ NavNext

ChatSpec == Init /\ [][ChatSpecNext]_vars

\* The chat hook driven through everything it returns, loadHistory
\* included, below a provider that signs the user in; the session does not
\* expire.
\* outcomes in which the session has not expired
HookOutcomes == {o \in ChatOutcomes : o.status /= 401}

HookNext ==
    \/ TypeInput(<<" ", "q", " ">>)
    \/ HandleSubmit
    \/ \E r \in chatReqs, o \in HookOutcomes : SendSettles(r, o)
    \/ ClearChat
    \/ \E t \in 1..MaxTurns : LoadHistory(t)
    \/ \E r \in historyReqs, o \in HookOutcomes : HistorySettles(r, o)
    \/ \E r \in DOMAIN authReqs, o \in MeOutcomes : MeSettles(r, o)
    \/ \E t \in DOMAIN retryTimers : RetryFires(t)

HookSpec == Init /\ [][HookNext]_vars

\* ------------------------------------------------------------------------
\* Properties
\* ------------------------------------------------------------------------
LiveReqs == {r \in chatReqs : r.live}

\* the turn numbers of the messages in a list
TurnOf(m) == IF m.id[1] = "temp" THEN m.id[2] ELSE (m.id[2] + 1) \div 2

\* C1: AuthGuard returns its children only when isAuthenticated holds: a
\* ChatbotWidget is mounted only while user is non-null, the requests of a
\* mounted widget are in flight only while user is non-null, and
\* handleSubmit starts a request only while user is non-null.
C1_WidgetOnlyWhenAuthenticated ==
    /\ widgetMounted => isAuthenticated
    /\ LiveReqs /= {} => isAuthenticated
    /\ lastOp = "handleSubmit" => isAuthenticated

\* logout succeeded while a question was in flight: the widget is gone
C1_Witness ==
    /\ lastOp = "logoutOk"
    /\ ~isAuthenticated
    /\ ~widgetMounted
    /\ chatReqs /= {}

\* the request r of a mounted widget settles in this step with the result op
Settles(r, op) == r \in LiveReqs /\ r \notin chatReqs' /\ lastOp' = op

ServerPair(r) == <<ServerUserMessage(r), ServerAssistantMessage(r)>>

\* C2: a successful sendMessage turns the list L held before the send into
\* L followed by exactly the server's user_message and then its
\* assistant_message.
C2_SendAppendsToListBeforeSend ==
    [][\A r \in chatReqs :
          Settles(r, "sendOk") => messages' = r.before \o ServerPair(r)]_vars

\* C3: a failed POST /chat/message gives one failure for the turn: no
\* further request, error set to the server's detail or the default text,
\* the list back to the list before the send, no assistant message,
\* threadId unchanged and isLoading false.
C3_FailedSendRestoresList ==
    [][\A r \in chatReqs :
          Settles(r, "sendFail") =>
              /\ chatReqs' = chatReqs \ {r}
              /\ error' \in {"detail", "Failed to send message"}
              /\ messages' = r.before
              /\ \A i \in 1..Len(messages') : TurnOf(messages'[i]) /= r.turn
              /\ threadId' = threadId
              /\ chatIsLoading' = FALSE]_vars

\* C5: all messages of the list belong to the hook's current thread, and
\* every assistant message directly follows the user message of its turn.
C5_OneLinearThread ==
    /\ \A i \in 1..Len(messages) :
          messages[i].id[1] = "msg" => messages[i].thread_id = threadId
    /\ \A i \in 1..Len(messages) :
          messages[i].role = "assistant" =>
              /\ i > 1
              /\ messages[i - 1].role = "user"
              /\ TurnOf(messages[i - 1]) = TurnOf(messages[i])

C6_UnauthorizedRejected ==
    [][\A r \in chatReqs, o \in ChatOutcomes :
          SendSettles(r, o) =>
              /\ o.status = 401 /\ r.live =>
                    /\ lastOp' = "sendFail"
                    /\ error' /= NoError
                    /\ Len(messages') <= Len(r.before)
                    /\ \A i \in 1..Len(messages') :
                          TurnOf(messages'[i]) /= r.turn
              /\ o.status = 401 /\ ~PathIncludesAuth(pathname) =>
                    pendingLoad' = "/auth/login"
              /\ o.status = 401 /\ PathIncludesAuth(pathname) =>
                    pendingLoad' = pendingLoad
              /\ o.status /= 401 => pendingLoad' = pendingLoad]_vars

\* a 401 has sent the browser to the login page and the turn left nothing
C6_Witness ==
    /\ lastOp = "sendFail"
    /\ pendingLoad = "/auth/login"
    /\ error /= NoError
    /\ messages = <<>>

\* C7: within one AuthProvider, user goes from null to a user only when a
\* login, a register or an auth check succeeds, and from a user to null
\* only on logout or on an auth check that reports unauthenticated or
\* fails; isAuthenticated is user !== null.
C7_UserTransitions ==
    [][lastOp' /= "load" =>
          /\ user = NoUser /\ user' /= NoUser =>
                lastOp' \in {"loginOk", "registerOk", "meOk"}
          /\ user /= NoUser /\ user' = NoUser =>
                lastOp' \in {"logoutOk", "me401", "meError"}
          /\ user' /= user =>
                lastOp' \in {"loginOk", "registerOk", "meOk",
                             "logoutOk", "me401", "meError"}
          /\ isAuthenticated' <=> user' /= NoUser]_vars

\* a logout has taken the user back to null
C7_Witness ==
    /\ lastOp = "logoutOk"
    /\ user = NoUser
    /\ isMountedRef

\* C8: when logout() has completed, user is null and isLoading is false,
\* whether POST /auth/logout succeeded or failed.
C8_LogoutAlwaysClears ==
    isMountedRef /\ lastOp \in {"logoutOk", "logoutFail"} =>
        user = NoUser /\ ~isAuthenticated /\ ~isLoading

\* C9: an auth check that ends in an error, or in a 401 (which
\* getCurrentUser does not throw), leaves user = null, isAuthenticated =
\* false and isLoading = false.
C9_FailedCheckUnauthenticated ==
    /\ isMountedRef /\ lastOp \in {"meError", "me401"} =>
          user = NoUser /\ ~isAuthenticated /\ ~isLoading
    /\ \A o \in MeOutcomes :
          o.response /\ o.status = 401 => ~GetCurrentUser(o).threw

\* an auth check has ended in an error
C9_Witness ==
    /\ lastOp = "meError"
    /\ isMountedRef
    /\ user = NoUser
    /\ ~isLoading

NthDelay(n) == CASE n = 1 -> 1000 [] n = 2 -> 2000 [] OTHER -> 4000

C12_AuthenticatedSeesWidget ==
    isMountedRef /\ isAuthenticated /\ ~isLoading /\ pendingLoad = NoLoad
        => widgetMounted
\* C13: 'Get Started with AI' clicked by a signed-in user whose
\* ChatbotWidget is mounted leaves the widget expanded and the page where
\* it is; clicked by a visitor it navigates to /auth/signup and changes no
\* chatbot state.
C13_GetStartedExpandsChatbot ==
    [][lastOp' = "getStarted" =>
          /\ isAuthenticated /\ widgetMounted =>
                /\ isExpanded'
                /\ pathname' /= "/auth/signup"
                /\ pathname' = pathname
          /\ ~isAuthenticated =>
                /\ pathname' = "/auth/signup"
                /\ UNCHANGED chatVars]_vars
\* C14: the navbar never shows a Login or Sign Up link together with the
\* user dropdown: a signed-in user (not loading) sees the dropdown and no
\* Login or Sign Up link, a visitor (not loading) sees both links and no
\* dropdown, and while the auth check is loading the wrapper adds nothing.
C14_NavbarLinksOrDropdown ==
    isMountedRef =>
        LET shown == NavbarShows(isLoading, isAuthenticated)
        IN  /\ ~("UserDropdown" \in shown
                    /\ ("Login" \in shown \/ "Sign Up" \in shown))
            /\ isAuthenticated /\ ~isLoading =>
                  /\ "UserDropdown" \in shown
                  /\ "Login" \notin shown
                  /\ "Sign Up" \notin shown
            /\ ~isAuthenticated /\ ~isLoading =>
                  /\ "Login" \in shown
                  /\ "Sign Up" \in shown
                  /\ "UserDropdown" \notin shown
            /\ isLoading => WrapperItems(isLoading, isAuthenticated) = {}
\* the steps in which the user or the browser changes the page
UserNavigation == {"navigate", "getStarted", "load"}

\* C15: on /auth/login and /auth/signup a signed-in user (not loading) gets
\* no form and is redirected to the home page, so no such state rests on an
\* auth page; for a visitor the form is rendered and the page issues no
\* redirect.
C15_AuthPagesRedirectSignedIn ==
    [][/\ (isMountedRef /\ isAuthenticated /\ ~isLoading)' =>
             /\ ~PathIncludesAuth(pathname')
             /\ \A p \in Paths : PathIncludesAuth(p) => ~(AuthFormRendered(p))'
       /\ (isMountedRef /\ isAuthenticated /\ ~isLoading)'
             /\ PathIncludesAuth(pathname) =>
                pathname' = "/"
       /\ (isMountedRef /\ ~isAuthenticated)' /\ PathIncludesAuth(pathname') =>
             (AuthFormRendered(pathname))'
       /\ PathIncludesAuth(pathname) /\ isMountedRef /\ pathname' /= pathname
             /\ lastOp' \notin UserNavigation =>
                (isAuthenticated /\ ~isLoading)']_vars

\* the signup page has sent the user it registered to the home page
C15_Witness ==
    /\ lastOp = "registerOk"
    /\ isAuthenticated
    /\ ~isLoading
    /\ pathname = "/"
\* C16: AuthGuard pushes redirectTo only when isLoading is false,
\* isAuthenticated is false and redirectTo is non-null, and then it pushes
\* redirectTo; with redirectTo = null it pushes nothing, and it pushes
\* nothing for a signed-in user. The guard of Root (redirectTo = null)
\* never moves the page: a visitor whose auth check has ended stays where
\* they are.
C16_GuardRedirectsOnlyVisitors ==
    [][/\ \A loading \in BOOLEAN, authed \in BOOLEAN, to \in RedirectTargets :
             LET pushed == AuthGuardRedirect(loading, authed, to)
             IN  /\ pushed /= NoRedirect =>
                       ~loading /\ ~authed /\ to /= NoRedirect /\ pushed = to
                 /\ to = NoRedirect => pushed = NoRedirect
                 /\ authed => pushed = NoRedirect
       /\ isMountedRef /\ ~isAuthenticated' /\ lastOp' \notin UserNavigation =>
             pathname' = pathname
       /\ pathname' /= pathname /\ lastOp' \notin UserNavigation =>
             isAuthenticated' /\ PathIncludesAuth(pathname)]_vars

\* an auth check has reported a visitor on the home page and the guard of
\* Root has left the page where it was
C16_Witness ==
    /\ lastOp = "me401"
    /\ isMountedRef
    /\ ~isLoading
    /\ ~isAuthenticated
    /\ pathname = "/"
    /\ ~widgetMounted
\* the messages of a list that belong to the turn of request r
TurnMessages(list, r) ==
    SelectSeq(list, LAMBDA m : m.role = "user" /\ TurnOf(m) = r.turn)

\* C17: a request has query_mode 'selection' exactly when a non-empty
\* selectedText is stored when it is submitted, and then carries that text
\* as selected_text; otherwise its query_mode is 'full_book'. No request in
\* flight has query_mode 'selection' with an empty selected_text, and the
\* user message shown for the turn, optimistic or returned, has the mode
\* of the request.
C17_QueryModeFollowsSelection ==
    [][/\ lastOp' = "handleSubmit" =>
             \A r \in chatReqs' \ chatReqs :
                 /\ r.query_mode = "selection" <=> selectedText /= NoSelection
                 /\ r.query_mode = "selection" =>
                       r.selected_text = selectedText
                 /\ r.query_mode /= "selection" => r.query_mode = "full_book"
                 /\ Len(TurnMessages(messages', r)) = 1
                 /\ TurnMessages(messages', r)[1].query_mode = r.query_mode
       /\ \A r \in chatReqs' :
             /\ r.query_mode \in {"selection", "full_book"}
             /\ r.query_mode = "selection" => Len(r.selected_text) > 0
       /\ \A r \in chatReqs :
             Settles(r, "sendOk") =>
                 \A i \in 1..Len(TurnMessages(messages', r)) :
                     TurnMessages(messages', r)[i].query_mode = r.query_mode
      ]_vars

\* a question on a selected passage is in flight and shown in that mode
C17_Witness ==
    /\ lastOp = "handleSubmit"
    /\ \E r \in LiveReqs :
          /\ r.query_mode = "selection"
          /\ r.selected_text = <<"p">>
          /\ messages[Len(messages)].query_mode = "selection"
          /\ messages[Len(messages)].id = <<"temp", r.turn>>
\* C18: clearSelection leaves selectedText empty, the indicator hidden and
\* the page without selection; an empty selectedText becomes non-empty only
\* when the debounced call reads a non-empty selection of the page, which
\* after a clear only a new selection by the user provides, so a call
\* still pending at the clear changes nothing; a question submitted with an
\* empty selectedText is sent in full_book mode.
C18_ClearedSelectionStaysEmpty ==
    [][/\ lastOp' = "clearSelection" =>
             /\ selectedText' = NoSelection
             /\ pageSelection' = NoSelection
             /\ ~SelectionIndicatorShown'
       /\ selectedText = NoSelection /\ selectedText' /= NoSelection =>
             /\ lastOp' = "debounced"
             /\ pageSelection /= NoSelection
             /\ selectedText' = Trim(pageSelection)
       /\ pageSelection = NoSelection /\ pageSelection' /= NoSelection =>
             lastOp' = "selectionChange"
       /\ lastOp' = "debounced" /\ pageSelection = NoSelection =>
             selectedText' = selectedText
       /\ lastOp' = "handleSubmit" /\ selectedText = NoSelection =>
             \A r \in chatReqs' \ chatReqs : r.query_mode = "full_book"]_vars

\* the selection was cleared while a debounced update was scheduled
C18_Witness ==
    /\ lastOp = "clearSelection"
    /\ debouncePending
    /\ selectedText = NoSelection
    /\ pageSelection = NoSelection
    /\ widgetMounted
\* C19: when the user has clicked elsewhere on the page, so that the page
\* has no selection any more, the hook's debounced call clears the stored
\* selection and the chatbot is back in full_book mode.
C19_DeselectClearsStoredSelection ==
    [][lastOp' = "debounced" /\ pageSelection = NoSelection =>
          /\ selectedText' = NoSelection
          /\ QueryMode(selectedText') = "full_book"]_vars
\* the chat as clearChat leaves it
ChatIsFresh == messages = <<>> /\ threadId = NoThread /\ error = NoError

\* C20: New conversation leaves the message list empty, threadId null and
\* error null, also while a send is in flight; a mounted widget in that
\* state leaves it only when the user submits the next question, and that
\* question is sent with thread_id = null.
C20_ClearChatStartsFresh ==
    [][/\ lastOp' = "clearChat" => ChatIsFresh'
       /\ widgetMounted /\ widgetMounted' /\ ChatIsFresh /\ ~ChatIsFresh' =>
             lastOp' = "handleSubmit"
       /\ lastOp' = "handleSubmit" /\ ChatIsFresh =>
             \A r \in chatReqs' \ chatReqs : r.thread_id = NoThread]_vars
\* C21: when the chat hook mounts while the backend holds a thread of the
\* user, it requests that thread's history, so that the earlier questions
\* and answers come back after a reload or a new sign-in.
C21_HistoryLoadedOnMount ==
    [][~widgetMounted /\ widgetMounted' /\ history /= <<>> =>
          \E r \in historyReqs' :
              /\ r.live
              /\ ThreadHistory(history, r.thread) /= <<>>]_vars
\* a text with no blank at either end
IsTrimmed(s) == s = <<>> \/ (Head(s) /= " " /\ s[Len(s)] /= " ")

\* C22: handleSubmit issues a request only while isLoading is false and
\* only for an input that is non-empty after trimming; the message of the
\* request is the input without the blanks around it, and no request in
\* flight has an empty message.
C22_SubmitsTrimmedNonEmptyInput ==
    [][/\ (\E r \in chatReqs' : \A q \in chatReqs : q.turn /= r.turn) =>
             /\ lastOp' = "handleSubmit"
             /\ ~chatIsLoading
             /\ \A r \in chatReqs' \ chatReqs :
                    /\ r.message = Trim(inputValue)
                    /\ IsTrimmed(r.message)
                    /\ \E i \in 1..Len(inputValue) :
                           inputValue[i] /= " "
       /\ \A r \in chatReqs' : Len(r.message) > 0 /\ IsTrimmed(r.message)
       /\ lastOp' = "handleSubmit" => chatIsLoading' /\ chatReqs' /= chatReqs
      ]_vars

\* a question typed with blanks around it is in flight without them
C22_Witness ==
    /\ lastOp = "handleSubmit"
    /\ inputValue = <<" ", "q", " ">>
    /\ chatIsLoading
    /\ \E r \in LiveReqs : r.message = <<"q">>

RegisterRequest == [op |-> "register", retry |-> 0]

StrongPassword(p) ==
    /\ Len(p) >= 8
    /\ \E i \in 1..Len(p) : p[i] \in UpperCase
    /\ \E i \in 1..Len(p) : p[i] \in LowerCase
    /\ \E i \in 1..Len(p) : p[i] \in Digits
    /\ \E i \in 1..Len(p) : p[i] \in SpecialChars

FirstFailedCheck(p, c) ==
    CASE p /= c -> Mismatch
      [] p = c /\ Len(p) < 8 -> TooShort
      [] p = c /\ Len(p) >= 8 /\ ~HasChar(p, UpperCase) -> NoUpperCase
      [] p = c /\ Len(p) >= 8 /\ HasChar(p, UpperCase)
           /\ ~HasChar(p, LowerCase) -> NoLowerCase
      [] p = c /\ Len(p) >= 8 /\ HasChar(p, UpperCase)
           /\ HasChar(p, LowerCase) /\ ~HasChar(p, Digits) -> NoDigit
      [] OTHER -> NoSpecialChar

\* C23: a submit of SignupForm sends a register request exactly when the
\* password equals confirmPassword and has at least 8 characters, an
\* uppercase letter, a lowercase letter, a digit and a special character;
\* any other submit sends nothing and sets the error of the first failed
\* check, in the order mismatch, length, uppercase, lowercase, digit,
\* special character; and nothing but an accepted submit sends a register
\* request.
C23_SignupValidatesBeforeRegister ==
    [][
        /\ \A p \in Passwords : \A c \in Confirmations(p) :
            (lastOp' \in {"register", "signupRejected"}
                /\ SignupSubmit(p, c)) =>
                IF p = c /\ StrongPassword(p)
                THEN /\ CopiesIn(RegisterRequest, authReqs')
                          = CopiesIn(RegisterRequest, authReqs) + 1
                     /\ lastOp' = "register"
                ELSE /\ authReqs' = authReqs
                     /\ signupError' = FirstFailedCheck(p, c)
                     /\ lastOp' = "signupRejected"
        /\ (CopiesIn(RegisterRequest, authReqs')
               > CopiesIn(RegisterRequest, authReqs))
              => (lastOp' = "register")
        /\ (lastOp' = "register")
              => (\E p \in Passwords : StrongPassword(p) /\ SignupSubmit(p, p))
    ]_vars

\* the register request of an accepted submit is in flight, and the last
\* submit, of a password whose first failure is the special character, was
\* rejected
C23_Witness ==
    /\ lastOp = "signupRejected"
    /\ signupError = NoSpecialChar
    /\ BagIn(RegisterRequest, authReqs)

\* a submit was accepted and SignupForm awaits register
C23_Accepted ==
    /\ lastOp = "register"
    /\ signupIsLoading
    /\ BagIn(RegisterRequest, authReqs)

AssistantReplies(list, turn) ==
    {i \in 1..Len(list) :
        list[i].role = "assistant" /\ TurnOf(list[i]) = turn}

\* C24: the widget has at most one POST /chat/message in flight at any
\* time: a submit starts a request only when the widget awaits none, so no
\* two requests it awaits name the same thread, and every user turn has at
\* most one assistant reply, in the list and on the server.
C24_OneSendInFlight ==
    /\ [](Cardinality(LiveReqs) <= 1)
    /\ [][(\E r \in chatReqs' : \A q \in chatReqs : q.turn /= r.turn)
            => (LiveReqs = {} /\ ~chatIsLoading
                /\ Cardinality(LiveReqs') = 1)]_vars
    /\ [](\A turn \in 1..MaxTurns + 1 :
            /\ Cardinality(AssistantReplies(messages, turn)) <= 1
            /\ Cardinality(AssistantReplies(history, turn)) <= 1)

\* the first turn has its reply and the request of the second is in flight
C24_Witness ==
    /\ Cardinality(LiveReqs) = 1
    /\ \E r \in LiveReqs : r.turn = 2 /\ r.thread_id = 1
    /\ AssistantReplies(messages, 1) /= {}
    /\ chatIsLoading

MeSettled == {"meOk", "me401", "meRetry", "meError"}
CredentialsCompleted ==
    {"loginOk", "loginFail", "registerOk", "registerFail", "logoutOk",
     "logoutFail"}

\* C25: the response of a superseded /auth/me request changes neither user
\* nor isLoading. A response that settles right after a login, register or
\* logout completed was sent before that completion; a retry request that
\* settles right after a consumer called refreshUser is older than that call.
C25_SupersededCheckIgnored ==
    [][/\ (lastOp \in CredentialsCompleted /\ lastOp' \in MeSettled)
            => (user' = user /\ isLoading' = isLoading)
       /\ (/\ lastOp = "refreshUser"
           /\ lastOp' \in MeSettled
           /\ \E r \in DOMAIN authReqs :
                /\ r.op = "me" /\ r.retry > 0
                /\ CopiesIn(r, authReqs') < CopiesIn(r, authReqs))
            => (user' = user /\ isLoading' = isLoading)
      ]_vars

\* C26: while a retry of the auth check is scheduled, isLoading is true:
\* consumers do not see isLoading = false with user = null, so an AuthGuard
\* with redirectTo = "/auth/login" does not redirect and the navbar wrapper
\* does not render as for a visitor.
C26_LoadingWhileRetryPending ==
    retryTimers /= EmptyBag =>
        /\ isLoading
        /\ ~(~isLoading /\ user = NoUser)
        /\ AuthGuardRedirect(isLoading, isAuthenticated, "/auth/login")
             = NoRedirect

IsTemp(m) == m.id[1] = "temp"

\* C27: sendMessage appends a temporary user message with the submitted
\* text in the step that sends the request, and whenever the widget awaits
\* no send the list holds no temporary message.
C27_OptimisticMessageIsTemporary ==
    /\ [][\A r \in chatReqs' :
            (\A q \in chatReqs : q.turn /= r.turn) =>
                /\ Len(messages') = Len(messages) + 1
                /\ SubSeq(messages', 1, Len(messages)) = messages
                /\ IsTemp(messages'[Len(messages')])
                /\ messages'[Len(messages')].role = "user"
                /\ messages'[Len(messages')].content = r.message
                /\ r.message = Trim(inputValue)]_vars
    /\ [](LiveReqs = {} =>
             \A i \in 1..Len(messages) : ~IsTemp(messages[i]))

\* the first turn has its two server messages, the second send failed and
\* its temporary message is gone
C27_Witness ==
    /\ lastOp = "sendFail"
    /\ LiveReqs = {}
    /\ Len(messages) = 2
    /\ nextTurn = 3

\* C28: when loadHistory(t) succeeds the message list becomes the server's
\* list for thread t, in the server's order, and threadId becomes t; when
\* it fails the list and threadId stay as they were and error is set; in
\* both cases isLoading is false afterwards.
C28_LoadHistoryContract ==
    [][\A r \in historyReqs :
          (r.live /\ r \notin historyReqs') =>
              /\ lastOp' = "historyOk" =>
                    /\ messages' = ThreadHistory(history, r.thread)
                    /\ threadId' = r.thread
                    /\ ~chatIsLoading'
              /\ lastOp' = "historyFail" =>
                    /\ messages' = messages
                    /\ threadId' = threadId
                    /\ error' /= NoError
                    /\ ~chatIsLoading'
              /\ widgetMounted' => lastOp' \in {"historyOk", "historyFail"}
      ]_vars

\* the widget was on the second thread; loadHistory(1) has put the two
\* messages of the first thread in its place
C28_Witness ==
    /\ lastOp = "historyOk"
    /\ threadId = 1
    /\ Len(history) = 4
    /\ messages = ThreadHistory(history, 1)
    /\ Len(messages) = 2
    /\ ThreadHistory(history, 2) /= <<>>

MeRequests(reqs) == {r \in DOMAIN reqs : r.op = "me"}

\* C29: once AuthProvider has unmounted, a settling /auth/me response and
\* a firing retry timer change neither user nor isLoading, send no further
\* /auth/me request and schedule no further retry.
C29_NoUpdateAfterUnmount ==
    [][(~isMountedRef /\ lastOp' \in MeSettled \cup {"retryFires"}) =>
          /\ user' = user
          /\ isLoading' = isLoading
          /\ \A r \in MeRequests(authReqs') :
                CopiesIn(r, authReqs') <= CopiesIn(r, authReqs)
          /\ \A t \in DOMAIN retryTimers' :
                CopiesIn(t, retryTimers') <= CopiesIn(t, retryTimers)
      ]_vars

\* the provider unmounted with a retry scheduled and isLoading true; the
\* timer has fired and started nothing
C29_Witness ==
    /\ ~isMountedRef
    /\ lastOp = "retryFires"
    /\ isLoading
    /\ authReqs = EmptyBag
    /\ retryTimers = EmptyBag

\* C30: when a send the widget awaits settles, with a reply or with an
\* error, the input field is emptied and, for a selection-mode question, the
\* stored selection and the selection of the page are cleared; after a
\* failed send the widget has the error, an empty input and, for a selection
\* question, no selection.
C30_SettledSendClearsInput ==
    [][\A r \in LiveReqs :
          (Settles(r, "sendOk") \/ Settles(r, "sendFail")) =>
              /\ inputValue' = <<>>
              /\ r.query_mode = "selection" =>
                    (selectedText' = NoSelection
                         /\ pageSelection' = NoSelection)
              /\ Settles(r, "sendFail") => error' /= NoError
              /\ ~chatIsLoading'
      ]_vars

\* a selection question failed: the error is shown, the input is empty, the
\* stored selection is gone and removeAllRanges has emptied the selection
\* of the page
C30_Witness ==
    /\ lastOp = "sendFail"
    /\ error /= NoError
    /\ inputValue = <<>>
    /\ selectedText = NoSelection
    /\ pageSelection = NoSelection
    /\ debouncePending
    /\ messages = <<>>
====
